---- MODULE Spec2Model ----
(***************************************************************************)
(* A model of sphinx_docbook/docbook_writer.py: DocBookWriter.translate     *)
(* walks a docutils document tree depth-first (Node.walkabout) and          *)
(* DocBookTranslator's visit_/depart_ handlers feed an lxml TreeBuilder.    *)
(*                                                                         *)
(* Text is a sequence of code points.  Identifiers, tags and attribute      *)
(* values are strings.  A node of the input tree is a record                *)
(*   [kind, ids, attrs, text, children]                                     *)
(* and is addressed by its path: the child indexes from the document node.  *)
(***************************************************************************)
EXTENDS Integers, Sequences, FiniteSets, TLC

\* ------------------------------------------------------------------ values

\* Python's None where a string is expected (str(None) is "None").
None == "None"
\* Python's None where a text is expected: no text holds the code point -1.
NoneT == <<-1>>
\* _print_error called without a node.
NoNode == <<0>>

XML_ID == "{http://www.w3.org/XML/1998/namespace}id"

\* Python truthiness of an optional string / an optional text.
Truthy(x) == x # None /\ x # ""
TruthyT(t) == t # NoneT /\ t # <<>>

NoAttrs == <<>>
HasAttr(a, k) == k \in DOMAIN a
SetAttr(a, k, v) == [x \in (DOMAIN a) \cup {k} |-> IF x = k THEN v ELSE a[x]]
DelAttr(a, k) == [x \in (DOMAIN a) \ {k} |-> a[x]]

\* Text literals (code points).
T_author == <<97, 117, 116, 104, 111, 114>>
T_date == <<100, 97, 116, 101>>
T_unknownfield == <<117, 110, 107, 110, 111, 119, 110, 102, 105, 101, 108, 100>>
T_Intro == <<73, 110, 116, 114, 111>>
T_Hello == <<72, 101, 108, 108, 111>>
T_Ada == <<65, 100, 97>>
T_2024 == <<50, 48, 50, 52>>
T_X == <<88>>
\* "A\x00B\x0cC": a payload with a NUL and a form feed.
T_dirty == <<65, 0, 66, 12, 67>>
T_Glossary == <<71, 108, 111, 115, 115, 97, 114, 121>>
T_nlnl == <<10, 10>>

\* ------------------------------------------------------------- input trees

Node(kind, ids, attrs, children) ==
    [kind |-> kind, ids |-> ids, attrs |-> attrs, text |-> <<>>, children |-> children]

Text(t) ==
    [kind |-> "Text", ids |-> <<>>, attrs |-> NoAttrs, text |-> t, children |-> <<>>]

RECURSIVE NodeAt(_, _)
NodeAt(tree, p) ==
    IF p = <<>> THEN tree ELSE NodeAt(tree.children[Head(p)], Tail(p))

RECURSIVE SetNodeAt(_, _, _)
SetNodeAt(tree, p, n) ==
    IF p = <<>> THEN n
    ELSE [tree EXCEPT !.children[Head(p)] = SetNodeAt(@, Tail(p), n)]

ParentPath(p) == SubSeq(p, 1, Len(p) - 1)
IsPrefix(p, q) == Len(p) <= Len(q) /\ SubSeq(q, 1, Len(p)) = p

\* docutils TextElement classes join their children's text with "", the
\* other Element classes with "\n\n" (Element.child_text_separator).
TextElementKinds ==
    {"paragraph", "title", "field_name", "caption", "term", "comment",
     "rubric", "target", "reference", "literal_block", "desc_name",
     "desc_annotation", "desc_addname", "download_reference", "line",
     "subtitle", "emphasis", "strong", "inline", "problematic"}

RECURSIVE Join(_, _)
Join(parts, sep) ==
    IF parts = <<>> THEN <<>>
    ELSE IF Len(parts) = 1 THEN parts[1]
    ELSE parts[1] \o sep \o Join(Tail(parts), sep)

\* node.astext()
RECURSIVE node_astext(_)
node_astext(n) ==
    IF n.kind = "Text" THEN n.text
    ELSE Join([i \in 1..Len(n.children) |-> node_astext(n.children[i])],
              IF n.kind \in TextElementKinds THEN <<>> ELSE T_nlnl)

\* ------------------------------------------------------------------- state

VARIABLES
    original,            \* the input tree as the caller supplied it
    document,            \* DocBookWriter.document: the input tree, as the handlers leave it
    document_type,       \* root tag given to the writer
    document_id,         \* document id given to the writer, or None
    output_xml_header,   \* whether the serialization carries an XML declaration
    kwargs,              \* extra keyword options of the writer
    in_first_section,    \* the first section-kind node has been entered
    in_pre_block,
    in_figure,
    in_glossary,
    next_element_id,     \* the pending identifier, or None
    description_type,    \* the desctype of the description being walked, or NoneT
    auto_summary_node,   \* path of the remembered autosummary table, or NoNode
    estack,              \* indexes into tb of the open elements, top last
    tb,                  \* the TreeBuilder's items in the order they were fed
    fields,              \* the metadata dict, as key/value pairs in insertion order
    current_field_name,  \* a text, or NoneT
    stderr,              \* what _print_error has written
    raised,              \* the exception that ended the translation, or "none"
    path,                \* walkabout: path of the node being handled
    phase,               \* walkabout: "visit", "depart", then "astext", "done" or "raised"
    output,              \* DocBookWriter.output: Unset (None) or Set(the serialized tree)
    writer_fields,       \* DocBookWriter.fields: Unset or Set(the translator's fields)
    first,               \* what an earlier translation of the same tree returned, or Unset
    text_in,             \* argument of a stand-alone _sanitize_xml_text call
    text_out             \* its result

config_vars == <<document_type, document_id, output_xml_header, kwargs>>
visitor_vars ==
    <<in_first_section, in_pre_block, in_figure, in_glossary, next_element_id,
      description_type, auto_summary_node, estack, tb, fields, current_field_name>>
walk_vars == <<path, phase, raised>>
writer_vars == <<output, writer_fields>>

\* A writer attribute that was never assigned, and one that holds v.
Unset == <<>>
Set(v) == <<v>>
san_vars == <<text_in, text_out>>
vars ==
    <<original, document, config_vars, visitor_vars, stderr, walk_vars, writer_vars, first,
      san_vars>>

\* The translator object (with the tree it walks, the error stream and the
\* path of the node walkabout is calling it for), as the handlers below read
\* and update it.
Cur ==
    [doc |-> document, document_type |-> document_type, document_id |-> document_id,
     kwargs |-> kwargs,
     in_first_section |-> in_first_section, in_pre_block |-> in_pre_block,
     in_figure |-> in_figure, in_glossary |-> in_glossary,
     next_element_id |-> next_element_id, description_type |-> description_type,
     auto_summary_node |-> auto_summary_node, estack |-> estack, tb |-> tb,
     fields |-> fields, current_field_name |-> current_field_name,
     stderr |-> stderr, at |-> path, exc |-> "none"]

Ok(s) == s.exc = "none"
Raise(s, e) == IF Ok(s) THEN [s EXCEPT !.exc = e] ELSE s

\* ------------------------------------------------- functions of the translator

_print_error(s, text, node) ==
    IF ~Ok(s) THEN s
    ELSE [s EXCEPT !.stderr = Append(@, [text |-> text, node |-> node])]

\* A filter that lets the form feed through.
Allowed_formfeed(c) == c >= 32 \/ c \in {9, 10, 12, 13}

Allowed(c) == c >= 32 \/ c \in {9, 10, 13}

_sanitize_xml_text(text) ==
    IF text = NoneT THEN <<>>
    ELSE IF \/ \E i \in 1..Len(text) : text[i] = 0
            \/ \E i \in 1..Len(text) : text[i] < 32 /\ text[i] \notin {9, 10, 13}
         THEN SelectSeq(SelectSeq(text, LAMBDA c : c # 0), LAMBDA c : Allowed(c))
         ELSE text

\* An attribute the caller did not supply.
Absent == "<absent>"

Elem(name, attribs, parent, arg_id, pend_id, node) ==
    [type |-> "elem", tag |-> name, attrs |-> attribs, text |-> <<>>,
     parent |-> parent, open |-> TRUE, arg_id |-> arg_id, pend_id |-> pend_id,
     node |-> node]

Data(text, parent, node) ==
    [type |-> "text", tag |-> "", attrs |-> NoAttrs, text |-> text,
     parent |-> parent, open |-> FALSE, arg_id |-> Absent, pend_id |-> None,
     node |-> node]

Top(stack) == IF stack = <<>> THEN 0 ELSE stack[Len(stack)]

\* self.tb.data(text)
tb_data(s, text) ==
    IF ~Ok(s) THEN s
    ELSE [s EXCEPT !.tb = Append(@, Data(text, Top(s.estack), s.at))]

\* An open that lets the id its caller supplied win over the pending
\* identifier, and leaves the pending identifier in place.
_push_element_explicit_first(s, name, attribs) ==
    IF ~Ok(s) THEN s
    ELSE LET pend == s.next_element_id
             given == IF HasAttr(attribs, XML_ID) THEN attribs[XML_ID] ELSE Absent
             a == IF given \notin {Absent, None} THEN attribs
                  ELSE IF Truthy(pend) THEN SetAttr(attribs, XML_ID, pend)
                  ELSE IF given = None THEN DelAttr(attribs, XML_ID)
                  ELSE attribs
         IN [s EXCEPT !.tb = Append(@, Elem(name, a, Top(s.estack), given, pend, s.at)),
                      !.estack = Append(@, Len(s.tb) + 1)]

\* Each element keeps, beside what the TreeBuilder holds, the id the caller
\* supplied (arg_id), the pending identifier found on entry (pend_id) and
\* the node whose handler opened it (node).
_push_element(s, name, attribs) ==
    IF ~Ok(s) THEN s
    ELSE LET pend == s.next_element_id
             a == IF Truthy(pend) THEN SetAttr(attribs, XML_ID, pend)
                  ELSE IF HasAttr(attribs, XML_ID) /\ attribs[XML_ID] = None
                       THEN DelAttr(attribs, XML_ID)
                       ELSE attribs
             given == IF HasAttr(attribs, XML_ID) THEN attribs[XML_ID] ELSE Absent
         IN [s EXCEPT !.next_element_id = IF Truthy(pend) THEN None ELSE @,
                      !.tb = Append(@, Elem(name, a, Top(s.estack), given, pend, s.at)),
                      !.estack = Append(@, Len(s.tb) + 1)]

\* A close that does nothing when no element is open.
_pop_element_lenient(s) ==
    IF ~Ok(s) \/ s.estack = <<>> THEN s
    ELSE [s EXCEPT !.estack = SubSeq(@, 1, Len(@) - 1),
                   !.tb[Top(s.estack)].open = FALSE]

_pop_element(s) ==
    IF ~Ok(s) THEN s
    ELSE IF s.estack = <<>> THEN Raise(s, "IndexError: pop from empty list")
    ELSE [s EXCEPT !.estack = SubSeq(@, 1, Len(@) - 1),
                   !.tb[Top(s.estack)].open = FALSE]

_add_element_title(s, title_name, title_attribs) ==
    _pop_element(tb_data(_push_element(s, "title", title_attribs),
                         _sanitize_xml_text(title_name)))

\* dict[key] = value
DictSet(d, k, v) ==
    IF \E i \in 1..Len(d) : d[i].key = k
    THEN [i \in 1..Len(d) |-> IF d[i].key = k THEN [key |-> k, value |-> v] ELSE d[i]]
    ELSE Append(d, [key |-> k, value |-> v])

DictKeys(d) == {d[i].key : i \in 1..Len(d)}
DictGet(d, k) == d[CHOOSE i \in 1..Len(d) : d[i].key = k].value

\* ---------------------------------------------------------------- handlers
\* A handler takes the translator s and the path p of its node and gives the
\* translator after it; s.exc names the exception it raised ("SkipNode" is
\* docutils' request to skip the node's children and its departure).

\* An enter of a Text that appends the text as it is.
visit_Text_raw(s, p) == tb_data(s, NodeAt(s.doc, p).text)

visit_Text(s, p) ==
    tb_data(s, _sanitize_xml_text(NodeAt(s.doc, p).text))

visit_paragraph(s, p) ==
    IF s.current_field_name = NoneT THEN _push_element(s, "para", NoAttrs) ELSE s

depart_paragraph(s, p) ==
    IF s.current_field_name = NoneT THEN _pop_element(s) ELSE s

visit_section(s, p) ==
    LET node == NodeAt(s.doc, p) IN
    IF s.in_first_section = FALSE
    THEN IF node.ids = <<>>
         THEN Raise(s, "IndexError: list assignment index out of range")
         ELSE LET s1 == [s EXCEPT !.doc = SetNodeAt(@, p, [node EXCEPT !.ids[1] = s.document_id])]
                  s2 == _push_element(s1, s.document_type,
                                      (XML_ID :> s.document_id) @@ ("version" :> "5.0"))
              IN [s2 EXCEPT !.in_first_section = TRUE]
    ELSE IF Truthy(s.next_element_id)
    THEN IF node.ids = <<>>
         THEN Raise(s, "IndexError: list assignment index out of range")
         ELSE LET s1 == [s EXCEPT !.doc = SetNodeAt(@, p, [node EXCEPT !.ids[1] = s.next_element_id]),
                                  !.next_element_id = None]
              IN _push_element(s1, "section", (XML_ID :> s.next_element_id))
    ELSE _push_element(s, "section",
                       IF Len(node.ids) > 0 THEN (XML_ID :> node.ids[1]) ELSE NoAttrs)

depart_section(s, p) == _pop_element(s)

visit_topic(s, p) == visit_section(s, p)

depart_topic(s, p) == depart_section(s, p)

visit_title(s, p) ==
    LET node == NodeAt(s.doc, p)
        parent == NodeAt(s.doc, ParentPath(p))
        attribs ==
            IF HasAttr(s.kwargs, "use_xml_id_in_titles") /\ s.kwargs["use_xml_id_in_titles"]
            THEN IF Len(node.ids) > 0 THEN (XML_ID :> node.ids[1])
                 ELSE IF Len(parent.ids) > 0 THEN (XML_ID :> (parent.ids[1] \o ".title"))
                 ELSE NoAttrs
            ELSE NoAttrs
    IN _push_element(s, "title", attribs)

\* A leave of a title that closes nothing.
depart_title_open(s, p) == s

depart_title(s, p) == _pop_element(s)

visit_target(s, p) ==
    LET node == NodeAt(s.doc, p) IN
    IF HasAttr(node.attrs, "refid")
    THEN IF node.attrs["refid"] = "index-0" THEN s
         ELSE [s EXCEPT !.next_element_id = node.attrs["refid"]]
    ELSE s

\* An enter of a comment that reports it and lets the walk go into it.
visit_comment_descend(s, p) == _print_error(s, "ignoring comment:", p)

\* The skip-and-report handlers: _print_error(text, node); raise nodes.SkipNode
visit_comment(s, p) ==
    Raise(_print_error(s, "ignoring comment:", p), "SkipNode")

visit_download_reference(s, p) ==
    Raise(_print_error(s, "ignoring download reference:", p), "SkipNode")

visit_desc_annotation(s, p) ==
    Raise(_print_error(s, "ignoring description annotation:", p), "SkipNode")

visit_desc_addname(s, p) ==
    Raise(_print_error(s, "ignoring description addname:", p), "SkipNode")

visit_rubric(s, p) ==
    Raise(_print_error(s, "ignoring rubric:", p), "SkipNode")

visit_tabular_col_spec(s, p) ==
    Raise(_print_error(s, "ignoring tabular column spec:", p), "SkipNode")

visit_meta(s, p) ==
    Raise(_print_error(s, "ignoring meta node:", p), "SkipNode")

visit_highlightlang(s, p) ==
    Raise(_print_error(s, "ignoring highlightlang directive:", p), "SkipNode")

visit_field_list(s, p) == _push_element(s, "info", NoAttrs)

depart_field_list(s, p) == _pop_element(s)

visit_field_name(s, p) ==
    LET name == node_astext(NodeAt(s.doc, p))
        s1 == IF name = T_author
              THEN _push_element(_push_element(s, "author", NoAttrs), "personname", NoAttrs)
              ELSE IF name = T_date THEN _push_element(s, "pubdate", NoAttrs)
              ELSE s
    IN Raise([s1 EXCEPT !.current_field_name = name], "SkipNode")

\* An enter of a field body that records the entries named author and date only.
visit_field_body_recognized(s, p) ==
    LET node == NodeAt(s.doc, p) IN
    IF TruthyT(s.current_field_name)
    THEN IF s.current_field_name \in {T_author, T_date}
         THEN [s EXCEPT !.fields = DictSet(@, s.current_field_name, node_astext(node))]
         ELSE s
    ELSE [s EXCEPT !.doc = SetNodeAt(@, p, [node EXCEPT !.children = <<>>])]

\* An enter of a field body that keeps the value a name already has.
visit_field_body_keep_first(s, p) ==
    LET node == NodeAt(s.doc, p) IN
    IF TruthyT(s.current_field_name)
    THEN IF s.current_field_name \in DictKeys(s.fields) THEN s
         ELSE [s EXCEPT !.fields = DictSet(@, s.current_field_name, node_astext(node))]
    ELSE [s EXCEPT !.doc = SetNodeAt(@, p, [node EXCEPT !.children = <<>>])]

visit_field_body(s, p) ==
    LET node == NodeAt(s.doc, p) IN
    IF TruthyT(s.current_field_name)
    THEN [s EXCEPT !.fields = DictSet(@, s.current_field_name, node_astext(node))]
    ELSE [s EXCEPT !.doc = SetNodeAt(@, p, [node EXCEPT !.children = <<>>])]

\* A leave of a field body that closes one element for an author entry.
depart_field_body_one_pop(s, p) ==
    IF TruthyT(s.current_field_name)
    THEN LET s1 == IF s.current_field_name \in {T_author, T_date}
                   THEN _pop_element(s)
                   ELSE s
         IN IF Ok(s1) THEN [s1 EXCEPT !.current_field_name = NoneT] ELSE s1
    ELSE s

depart_field_body(s, p) ==
    IF TruthyT(s.current_field_name)
    THEN LET s1 == IF s.current_field_name = T_author
                   THEN _pop_element(_pop_element(s))
                   ELSE IF s.current_field_name = T_date THEN _pop_element(s)
                   ELSE s
         IN IF Ok(s1) THEN [s1 EXCEPT !.current_field_name = NoneT] ELSE s1
    ELSE s

visit_image(s, p) ==
    LET node == NodeAt(s.doc, p)
        a == node.attrs
        s1 == IF s.in_figure = FALSE THEN _push_element(s, "mediaobject", NoAttrs) ELSE s
        s2 == _push_element(s1, "imageobject", NoAttrs)
        d1 == IF HasAttr(a, "uri") THEN ("fileref" :> a["uri"]) ELSE ("eek" :> "str(node)")
        d2 == IF HasAttr(a, "scale") THEN SetAttr(d1, "scale", a["scale"]) ELSE d1
        d3 == IF HasAttr(a, "align")
              THEN IF a["align"] \in {"top", "middle", "bottom"}
                   THEN SetAttr(d2, "valign", a["align"])
                   ELSE SetAttr(d2, "align", a["align"])
              ELSE d2
        s3 == IF HasAttr(a, "target")
              THEN _print_error(s2, "no target attribute supported for images!", NoNode)
              ELSE s2
        s4 == _pop_element(_push_element(s3, "imagedata", d3))
    IN IF HasAttr(a, "alt")
       THEN _pop_element(_pop_element(
                tb_data(_push_element(_push_element(s4, "textobject", NoAttrs),
                                      "phrase", NoAttrs),
                        _sanitize_xml_text(a["alt"]))))
       ELSE s4

depart_image(s, p) ==
    LET s1 == _pop_element(s) IN
    IF s.in_figure = FALSE THEN _pop_element(s1) ELSE s1

visit_figure(s, p) ==
    LET s1 == _push_element(s, "mediaobject", NoAttrs) IN
    IF Ok(s1) THEN [s1 EXCEPT !.in_figure = TRUE] ELSE s1

depart_figure(s, p) ==
    LET s1 == _pop_element(s) IN
    IF Ok(s1) THEN [s1 EXCEPT !.in_figure = FALSE] ELSE s1

visit_caption(s, p) == visit_paragraph(_push_element(s, "caption", NoAttrs), p)

depart_caption(s, p) == _pop_element(depart_paragraph(s, p))

visit_list_item(s, p) == _push_element(s, "listitem", NoAttrs)

depart_list_item(s, p) == _pop_element(s)

visit_definition_list(s, p) ==
    IF ~s.in_glossary THEN _push_element(s, "variablelist", NoAttrs) ELSE s

depart_definition_list(s, p) ==
    IF ~s.in_glossary THEN _pop_element(s) ELSE s

visit_definition_list_item(s, p) ==
    LET node == NodeAt(s.doc, p)
        attribs == IF Len(node.ids) > 0 THEN (XML_ID :> node.ids[1]) ELSE NoAttrs
    IN IF s.in_glossary THEN _push_element(s, "glossentry", attribs)
       ELSE _push_element(s, "varlistentry", attribs)

depart_definition_list_item(s, p) == _pop_element(s)

visit_term(s, p) ==
    LET node == NodeAt(s.doc, p)
        attribs == IF Len(node.ids) > 0 THEN (XML_ID :> node.ids[1]) ELSE NoAttrs
    IN IF s.in_glossary THEN _push_element(s, "glossterm", attribs)
       ELSE _push_element(s, "term", attribs)

depart_term(s, p) == _pop_element(s)

visit_definition(s, p) ==
    IF s.in_glossary THEN _push_element(s, "glossdef", NoAttrs) ELSE visit_list_item(s, p)

depart_definition(s, p) ==
    IF s.in_glossary THEN _pop_element(s) ELSE depart_list_item(s, p)

visit_glossary(s, p) ==
    LET node == NodeAt(s.doc, p)
        pend == Truthy(s.next_element_id)
        attribs == IF pend THEN (XML_ID :> s.next_element_id)
                   ELSE IF Len(node.ids) > 0 THEN (XML_ID :> node.ids[1])
                   ELSE NoAttrs
        s1 == [s EXCEPT !.next_element_id = IF pend THEN None ELSE @,
                        !.in_glossary = TRUE]
        s2 == _push_element(s1, "glossary", attribs)
    IN IF ~ \E i \in 1..Len(node.children) : node.children[i].kind = "title"
       THEN _add_element_title(s2, T_Glossary, NoAttrs)
       ELSE s2

depart_glossary(s, p) == _pop_element([s EXCEPT !.in_glossary = FALSE])

\* NodeVisitor.unknown_visit / unknown_departure, inherited from docutils:
\* a node class with no visit_ (depart_) method of its own raises.
unknown_visit(s, p) == Raise(s, "NotImplementedError: visiting unknown node type")
unknown_departure(s, p) == Raise(s, "NotImplementedError: departing unknown node type")

\* visit_include has a docstring and no statement.
visit_include(s, p) == s

\* str.rfind(c), 1-based: the last position of c in t, or 0.
rfind(t, c) ==
    IF \E i \in 1..Len(t) : t[i] = c
    THEN CHOOSE i \in 1..Len(t) : t[i] = c /\ \A j \in (i + 1)..Len(t) : t[j] # c
    ELSE 0

\* os.path.splitext(p)[0]: p without the extension of its last component.
splitext_root(t) ==
    LET sep == rfind(t, 47)
        dot == rfind(t, 46)
    IN IF dot > sep /\ \E k \in (sep + 1)..(dot - 1) : t[k] # 46
       THEN SubSeq(t, 1, dot - 1)
       ELSE t

XLINK_HREF == "{http://www.w3.org/1999/xlink}href"

visit_reference(s, p) ==
    LET node == NodeAt(s.doc, p)
        a == node.attrs
        anon == HasAttr(a, "anonymous") /\ a["anonymous"] = 1 /\ HasAttr(a, "refuri")
    IN IF anon /\ a["refuri"] = <<>>
       THEN Raise(s, "IndexError: string index out of range")
       ELSE LET hidden == anon /\ a["refuri"][1] = 95
                internal_ref == IF hidden THEN TRUE
                                ELSE IF HasAttr(a, "internal") THEN a["internal"]
                                ELSE FALSE
                a1 == IF hidden THEN SetAttr(a, "refuri", Tail(a["refuri"])) ELSE a
                s1 == IF hidden
                      THEN [s EXCEPT !.doc = SetNodeAt(@, p, [node EXCEPT !.attrs = a1])]
                      ELSE s
            IN IF HasAttr(a1, "refid")
               THEN _push_element(s1, "link", ("linkend" :> a1["refid"]))
               ELSE IF HasAttr(a1, "refuri")
               THEN IF internal_ref
                    THEN _push_element(s1, "link", ("linkend" :> splitext_root(a1["refuri"])))
                    ELSE _push_element(s1, "link", (XLINK_HREF :> a1["refuri"]))
               ELSE _print_error(s1, "unknown reference", p)

\* A leave of a reference that closes an element whatever the node holds.
depart_reference_always(s, p) == _pop_element(s)

depart_reference(s, p) ==
    LET a == NodeAt(s.doc, p).attrs IN
    IF HasAttr(a, "refid") \/ HasAttr(a, "refuri") THEN _pop_element(s) ELSE s

visit_problematic(s, p) == _print_error(s, "problematic node", p)

visit_system_message(s, p) == _print_error(s, "system message", p)

\* node.next_node() is the node's first child, or None; subscripting None or
\* a Text with 'ids' raises TypeError.
visit_desc(s, p) ==
    LET node == NodeAt(s.doc, p)
        s0 == [s EXCEPT !.description_type =
                   IF HasAttr(node.attrs, "desctype") THEN node.attrs["desctype"] ELSE NoneT]
    IN IF Truthy(s.next_element_id)
       THEN IF node.ids = <<>>
            THEN Raise(s0, "IndexError: list assignment index out of range")
            ELSE _push_element(
                     [s0 EXCEPT !.doc = SetNodeAt(@, p, [node EXCEPT !.ids[1] = s.next_element_id]),
                                !.next_element_id = None],
                     "section", (XML_ID :> s.next_element_id))
       ELSE IF Len(node.ids) > 0
       THEN _push_element(s0, "section", (XML_ID :> node.ids[1]))
       ELSE IF node.children = <<>>
       THEN Raise(s0, "TypeError: 'NoneType' object is not subscriptable")
       ELSE IF node.children[1].kind = "Text"
       THEN Raise(s0, "TypeError: string indices must be integers")
       ELSE _push_element(s0, "section",
                          IF Len(node.children[1].ids) > 0
                          THEN (XML_ID :> node.children[1].ids[1])
                          ELSE NoAttrs)

\* node.previous_sibling().previous_sibling() is the rubric of the table, and
\* None has neither method; rubric.next_node() is the rubric's first child
\* (a Text) or None, which _sanitize_xml_text turns into ''.
visit_autosummary_table(s, p) ==
    LET s1 == visit_section(s, p)
        i == p[Len(p)]
        rp == ParentPath(p) \o <<i - 2>>
    IN IF i < 3
       THEN Raise(s1, "AttributeError: 'NoneType' object has no attribute")
       ELSE LET rubric == NodeAt(s1.doc, rp)
                s2 == visit_title(s1, rp)
                s3 == IF rubric.children = <<>>
                      THEN tb_data(s2, _sanitize_xml_text(NoneT))
                      ELSE visit_Text(s2, rp \o <<1>>)
            IN depart_title(s3, rp)

depart_autosummary_table(s, node, opt) ==
    IF opt THEN _pop_element(s)
    ELSE IF Ok(s) THEN [s EXCEPT !.auto_summary_node = node] ELSE s

depart_desc(s, p) ==
    LET s1 == IF s.auto_summary_node # NoNode
              THEN LET s2 == depart_autosummary_table(s, s.auto_summary_node, TRUE)
                   IN IF Ok(s2) THEN [s2 EXCEPT !.auto_summary_node = NoNode] ELSE s2
              ELSE s
    IN _pop_element(s1)

\* str.title() on ASCII text: a letter is upper case after a non-letter and
\* lower case after a letter.
IsLetter(c) == (c >= 65 /\ c <= 90) \/ (c >= 97 /\ c <= 122)
str_title(t) ==
    [i \in 1..Len(t) |->
        IF ~IsLetter(t[i]) THEN t[i]
        ELSE IF i > 1 /\ IsLetter(t[i - 1])
        THEN (IF t[i] <= 90 THEN t[i] + 32 ELSE t[i])
        ELSE (IF t[i] >= 97 THEN t[i] - 32 ELSE t[i])]

\* The tag names str() has to spell out: 'desc_sig_name'.
TagName ==
    [desc_sig_name |-> <<100, 101, 115, 99, 95, 115, 105, 103, 95, 110, 97, 109, 101>>]

\* str(node): the text of a Text; for an element that has children and
\* neither identifiers nor attributes, '<tag>', its children's str(), '</tag>'.
RECURSIVE node_str(_)
node_str(n) ==
    IF n.kind = "Text" THEN n.text
    ELSE <<60>> \o TagName[n.kind] \o <<62>>
         \o Join([i \in 1..Len(n.children) |-> node_str(n.children[i])], <<>>)
         \o <<60, 47>> \o TagName[n.kind] \o <<62>>

\* str(node.next_node()) is the str() of the first child; node.pop() removes
\* the last child and raises on a node without children.
visit_desc_name(s, p) ==
    LET node == NodeAt(s.doc, p) IN
    IF s.description_type # NoneT
    THEN IF node.children = <<>>
         THEN Raise(s, "IndexError: pop from empty list (node.pop)")
         ELSE LET next_node == node_str(node.children[1])
                  kept == SubSeq(node.children, 1, Len(node.children) - 1)
                  sanitized_text ==
                      _sanitize_xml_text(next_node \o <<32, 40>> \o str_title(s.description_type)
                                         \o <<41>>)
                  s1 == [s EXCEPT !.doc = SetNodeAt(@, p,
                             [node EXCEPT !.children = Append(kept, Text(sanitized_text))])]
              IN visit_title(s1, p)
    ELSE visit_title(s, p)

depart_desc_name(s, p) == _pop_element([s EXCEPT !.description_type = NoneT])

visit_line_block(s, p) == _push_element(s, "literallayout", NoAttrs)

depart_line_block(s, p) == _pop_element(s)

\* A leave of a line that appends a line feed after every line.
depart_line_always(s, p) == tb_data(s, <<10>>)

\* A line that is not the last child of its parent is followed by a line feed.
depart_line(s, p) ==
    IF p[Len(p)] # Len(NodeAt(s.doc, ParentPath(p)).children)
    THEN tb_data(s, <<10>>)
    ELSE s

\* node.get(key, '') and the truth of the value found.
GetAttr(a, k, default) == IF HasAttr(a, k) THEN a[k] ELSE default

visit_pending_xref(s, p) ==
    LET a == NodeAt(s.doc, p).attrs
        reftype == GetAttr(a, "reftype", "")
        reftarget == GetAttr(a, "reftarget", "")
    IN IF reftype = "term" /\ Truthy(reftarget)
       THEN _push_element(s, "glossterm", ("linkend" :> reftarget))
       ELSE IF Truthy(GetAttr(a, "refid", None))
       THEN _push_element(s, "link", ("linkend" :> a["refid"]))
       ELSE IF Truthy(reftarget)
       THEN _push_element(s, "link", ("linkend" :> reftarget))
       ELSE _push_element(s, "emphasis", NoAttrs)

depart_pending_xref(s, p) == _pop_element(s)

\* node['classes'] is the empty list on a node that was given no class.
visit_literal_block(s, p) ==
    LET a == NodeAt(s.doc, p).attrs
        classes == GetAttr(a, "classes", <<>>)
    IN IF HasAttr(a, "language") /\ Len(classes) = 1
       THEN Raise(s, "IndexError: list index out of range")
       ELSE LET attribs == IF HasAttr(a, "language")
                           THEN IF Len(classes) > 0 THEN ("language" :> classes[2])
                                ELSE ("language" :> a["language"])
                           ELSE NoAttrs
                s1 == _push_element(s, "programlisting", attribs)
            IN IF Ok(s1) THEN [s1 EXCEPT !.in_pre_block = TRUE] ELSE s1

depart_literal_block(s, p) ==
    LET s1 == _pop_element(s) IN
    IF Ok(s1) THEN [s1 EXCEPT !.in_pre_block = FALSE] ELSE s1

visit_address(s, p) == visit_literal_block(s, p)

depart_address(s, p) == depart_literal_block(s, p)

\* ------------------------------------------------------------ the walk
\* Node.walkabout(visitor): the enter handler, then the children in document
\* order, then the leave handler; SkipNode raised by the enter handler skips
\* the children and the leave handler.  Any other exception ends translate().

Commit(s) ==
    /\ document' = s.doc
    /\ in_first_section' = s.in_first_section
    /\ in_pre_block' = s.in_pre_block
    /\ in_figure' = s.in_figure
    /\ in_glossary' = s.in_glossary
    /\ next_element_id' = s.next_element_id
    /\ description_type' = s.description_type
    /\ auto_summary_node' = s.auto_summary_node
    /\ estack' = s.estack
    /\ tb' = s.tb
    /\ fields' = s.fields
    /\ current_field_name' = s.current_field_name
    /\ stderr' = s.stderr
    /\ raised' = IF s.exc = "SkipNode" THEN "none" ELSE s.exc
    /\ UNCHANGED <<original, config_vars, writer_vars, first, san_vars>>

\* Where the walk goes once the node at p is done with.
AfterNode(doc, p) ==
    IF p = <<>> THEN [path |-> <<>>, phase |-> "astext"]
    ELSE LET i == p[Len(p)] IN
         IF i < Len(NodeAt(doc, ParentPath(p)).children)
         THEN [path |-> ParentPath(p) \o <<i + 1>>, phase |-> "visit"]
         ELSE [path |-> ParentPath(p), phase |-> "depart"]

AfterVisit(s, p) ==
    IF s.exc = "SkipNode" THEN AfterNode(s.doc, p)
    ELSE IF s.exc # "none" THEN [path |-> p, phase |-> "raised"]
    ELSE IF NodeAt(s.doc, p).children # <<>> THEN [path |-> p \o <<1>>, phase |-> "visit"]
    ELSE [path |-> p, phase |-> "depart"]

AfterDepart(s, p) ==
    IF s.exc # "none" THEN [path |-> p, phase |-> "raised"]
    ELSE AfterNode(s.doc, p)

Kind(p) == NodeAt(document, p).kind

Enter(kind, s) ==
    /\ phase = "visit"
    /\ Kind(path) = kind
    /\ Commit(s)
    /\ path' = AfterVisit(s, path).path
    /\ phase' = AfterVisit(s, path).phase

Leave(kind, s) ==
    /\ phase = "depart"
    /\ Kind(path) = kind
    /\ Commit(s)
    /\ path' = AfterDepart(s, path).path
    /\ phase' = AfterDepart(s, path).phase

Enter_document == Enter("document", Cur)
Leave_document == Leave("document", Cur)
Enter_Text == Enter("Text", visit_Text(Cur, path))
Leave_Text == Leave("Text", Cur)
Enter_paragraph == Enter("paragraph", visit_paragraph(Cur, path))
Leave_paragraph == Leave("paragraph", depart_paragraph(Cur, path))
Enter_section == Enter("section", visit_section(Cur, path))
Leave_section == Leave("section", depart_section(Cur, path))
Enter_topic == Enter("topic", visit_topic(Cur, path))
Leave_topic == Leave("topic", depart_topic(Cur, path))
Enter_title == Enter("title", visit_title(Cur, path))
Leave_title == Leave("title", depart_title(Cur, path))
Enter_target == Enter("target", visit_target(Cur, path))
Leave_target == Leave("target", Cur)
Enter_comment == Enter("comment", visit_comment(Cur, path))
Enter_download_reference == Enter("download_reference", visit_download_reference(Cur, path))
Enter_desc_annotation == Enter("desc_annotation", visit_desc_annotation(Cur, path))
Enter_desc_addname == Enter("desc_addname", visit_desc_addname(Cur, path))
Enter_rubric == Enter("rubric", visit_rubric(Cur, path))
Enter_tabular_col_spec == Enter("tabular_col_spec", visit_tabular_col_spec(Cur, path))
Enter_meta == Enter("meta", visit_meta(Cur, path))
Enter_highlightlang == Enter("highlightlang", visit_highlightlang(Cur, path))
Enter_field_list == Enter("field_list", visit_field_list(Cur, path))
Leave_field_list == Leave("field_list", depart_field_list(Cur, path))
Enter_field == Enter("field", Cur)
Leave_field == Leave("field", Cur)
Enter_field_name == Enter("field_name", visit_field_name(Cur, path))
Enter_field_body == Enter("field_body", visit_field_body(Cur, path))
Leave_field_body == Leave("field_body", depart_field_body(Cur, path))
Enter_image == Enter("image", visit_image(Cur, path))
Leave_image == Leave("image", depart_image(Cur, path))
Enter_figure == Enter("figure", visit_figure(Cur, path))
Leave_figure == Leave("figure", depart_figure(Cur, path))
Enter_caption == Enter("caption", visit_caption(Cur, path))
Leave_caption == Leave("caption", depart_caption(Cur, path))
Enter_definition_list == Enter("definition_list", visit_definition_list(Cur, path))
Leave_definition_list == Leave("definition_list", depart_definition_list(Cur, path))
Enter_definition_list_item ==
    Enter("definition_list_item", visit_definition_list_item(Cur, path))
Leave_definition_list_item ==
    Leave("definition_list_item", depart_definition_list_item(Cur, path))
Enter_term == Enter("term", visit_term(Cur, path))
Leave_term == Leave("term", depart_term(Cur, path))
Enter_definition == Enter("definition", visit_definition(Cur, path))
Leave_definition == Leave("definition", depart_definition(Cur, path))
Enter_glossary == Enter("glossary", visit_glossary(Cur, path))
Leave_glossary == Leave("glossary", depart_glossary(Cur, path))

\* The top-level elements fed to the TreeBuilder.
Enter_footnote == Enter("footnote", unknown_visit(Cur, path))
Enter_include == Enter("include", visit_include(Cur, path))
Leave_include == Leave("include", unknown_departure(Cur, path))
Enter_reference == Enter("reference", visit_reference(Cur, path))
Leave_reference == Leave("reference", depart_reference(Cur, path))
Enter_problematic == Enter("problematic", visit_problematic(Cur, path))
Leave_problematic == Leave("problematic", Cur)
Enter_system_message == Enter("system_message", visit_system_message(Cur, path))
Leave_system_message == Leave("system_message", Cur)
Enter_desc == Enter("desc", visit_desc(Cur, path))
Leave_desc == Leave("desc", depart_desc(Cur, path))
Enter_desc_signature == Enter("desc_signature", Cur)
Leave_desc_signature == Leave("desc_signature", Cur)
Enter_desc_name == Enter("desc_name", visit_desc_name(Cur, path))
Leave_desc_name == Leave("desc_name", depart_desc_name(Cur, path))

Enter_line_block == Enter("line_block", visit_line_block(Cur, path))
Leave_line_block == Leave("line_block", depart_line_block(Cur, path))
Enter_line == Enter("line", Cur)
Leave_line == Leave("line", depart_line(Cur, path))

Enter_autosummary_table == Enter("autosummary_table", visit_autosummary_table(Cur, path))
Leave_autosummary_table ==
    Leave("autosummary_table", depart_autosummary_table(Cur, path, FALSE))

Enter_pending_xref == Enter("pending_xref", visit_pending_xref(Cur, path))
Leave_pending_xref == Leave("pending_xref", depart_pending_xref(Cur, path))

Enter_literal_block == Enter("literal_block", visit_literal_block(Cur, path))
Leave_literal_block == Leave("literal_block", depart_literal_block(Cur, path))
Enter_address == Enter("address", visit_address(Cur, path))
Leave_address == Leave("address", depart_address(Cur, path))

TopLevel(t) == {i \in 1..Len(t) : t[i].type = "elem" /\ t[i].parent = 0}
Max(S) == CHOOSE x \in S : \A y \in S : y <= x

\* translate() after the walk: self.output = self.visitor.astext() and
\* self.fields = self.visitor.fields.  TreeBuilder.close() asserts that no
\* element is open and that there is a top-level element, and returns the
\* last element closed; the serialization is that element's tree.
AsText ==
    /\ phase = "astext"
    /\ IF estack # <<>>
       THEN /\ raised' = "AssertionError: missing end tags"
            /\ phase' = "raised"
            /\ UNCHANGED writer_vars
       ELSE IF TopLevel(tb) = {}
       THEN /\ raised' = "AssertionError: missing toplevel element"
            /\ phase' = "raised"
            /\ UNCHANGED writer_vars
       ELSE /\ output' = Set([standalone |-> output_xml_header, root |-> Max(TopLevel(tb))])
            /\ writer_fields' = Set(fields)
            /\ phase' = "done"
            /\ UNCHANGED raised
    /\ UNCHANGED <<original, document, config_vars, visitor_vars, stderr, path, first, san_vars>>

\* ------------------------------------------------------------- the inputs
\* Bounds of the input trees and of the sanitizer's stand-alone inputs.
MaxBlocks == 2
MaxFields == 2
MaxLen == 3

SeqsUpTo(S, n) == UNION {[1..k -> S] : k \in 0..n}

Doc(children) == Node("document", <<>>, NoAttrs, children)
P(t) == Node("paragraph", <<>>, NoAttrs, <<Text(t)>>)
Title(t) == Node("title", <<>>, NoAttrs, <<Text(t)>>)
Target(refid) == Node("target", <<>>, ("refid" :> refid), <<>>)
Sec(kind, ids, children) == Node(kind, ids, NoAttrs, children)
Image(attrs) == Node("image", <<>>, attrs, <<>>)
Figure(children) == Node("figure", <<>>, NoAttrs, children)
Caption(t) == Node("caption", <<>>, NoAttrs, <<Text(t)>>)
FieldName(t) == Node("field_name", <<>>, NoAttrs, IF t = <<>> THEN <<>> ELSE <<Text(t)>>)
FieldBody(children) == Node("field_body", <<>>, NoAttrs, children)
Field(name, body) == Node("field", <<>>, NoAttrs, <<FieldName(name), FieldBody(body)>>)
FieldList(flds) == Node("field_list", <<>>, NoAttrs, flds)
DefItem(ids, t, children) ==
    Node("definition_list_item", ids, NoAttrs,
         <<Node("term", <<>>, NoAttrs, <<Text(t)>>), Node("definition", <<>>, NoAttrs, children)>>)
DefList(items) == Node("definition_list", <<>>, NoAttrs, items)
Glossary(ids, children) == Node("glossary", ids, NoAttrs, children)

SkipKinds ==
    {"comment", "download_reference", "desc_annotation", "desc_addname",
     "tabular_col_spec", "meta", "highlightlang", "rubric"}
SectionKinds == {"section", "topic"}

\* A node of a skip-and-report kind, with a child.
Skipped(kind) == Node(kind, <<>>, NoAttrs, <<Text(T_X)>>)

PlainImage == Image(("uri" :> "a.png"))
AltImage == Image(("uri" :> "b.png") @@ ("alt" :> T_dirty) @@ ("align" :> "top"))
OddImage == Image(("scale" :> "50") @@ ("align" :> "left") @@ ("target" :> "t"))

\* One section with a title around the given blocks.
InSection(blocks) == Doc(<<Sec("section", <<"intro">>, <<Title(T_Intro)>> \o blocks)>>)

\* Sections, topics, targets and paragraphs at and below the document node.
SubSections ==
    {Sec(k, ids, <<Title(T_Hello), P(T_Hello)>>) : k \in SectionKinds, ids \in {<<>>, <<"sub">>}}
SectionDocs ==
    {Doc(pre \o <<Sec(k, ids, <<Title(T_Intro)>> \o inner)>> \o post) :
        pre \in {<<>>, <<Target("t1")>>, <<P(T_Hello)>>},
        k \in SectionKinds,
        ids \in {<<>>, <<"intro">>},
        inner \in {<<P(T_Hello)>>} \cup {<<x>> : x \in SubSections}
                    \cup {<<Target("t2"), x>> : x \in SubSections},
        post \in {<<>>, <<Sec("section", <<"second">>, <<Title(T_X), P(T_X)>>)>>}}

Blocks ==
    {P(T_Hello), Target("t1"), Target("index-0"), PlainImage, AltImage, OddImage,
     Figure(<<PlainImage>>), Figure(<<PlainImage, Caption(T_X)>>),
     Figure(<<Figure(<<PlainImage>>), PlainImage>>),
     Skipped("comment"),
     FieldList(<<Field(T_author, <<P(T_Ada)>>)>>),
     Glossary(<<>>, <<DefList(<<DefItem(<<"term-x">>, T_X, <<P(T_Hello)>>)>>)>>)}
BlockDocs == {InSection(b) : b \in SeqsUpTo(Blocks, MaxBlocks)}

FieldNames == {T_author, T_date, T_unknownfield, <<>>}
FieldBodies ==
    {<<P(T_Ada)>>, <<P(T_2024)>>, <<P(T_dirty)>>,
     <<FieldList(<<Field(T_date, <<P(T_2024)>>)>>)>>}
Fields == {Field(n, b) : n \in FieldNames, b \in FieldBodies}
FieldDocs ==
    {InSection(<<FieldList(f), P(T_Hello)>>) : f \in SeqsUpTo(Fields, MaxFields) \ {<<>>}}

\* The skip-and-report kinds: plain, after a target, in a figure, in a
\* glossary definition, in a field body.
SkipDocs ==
    UNION {{InSection(<<Skipped(k), P(T_Hello)>>),
            InSection(<<Target("t1"), Skipped(k), P(T_Hello)>>),
            InSection(<<Figure(<<PlainImage, Skipped(k)>>)>>),
            InSection(<<Glossary(<<>>, <<DefList(<<DefItem(<<>>, T_X, <<Skipped(k)>>)>>)>>)>>),
            InSection(<<FieldList(<<Field(T_author, <<Skipped(k), P(T_Ada)>>)>>)>>)}
           : k \in SkipKinds}

GlossaryDocs ==
    {InSection(<<g>>) :
        g \in {Glossary(<<"g1">>, <<Title(T_X), DefList(<<DefItem(<<>>, T_X, <<P(T_Hello)>>)>>)>>),
               DefList(<<DefItem(<<"i1">>, T_X, <<P(T_Hello)>>)>>),
               DefList(<<DefItem(<<>>, T_X,
                   <<Glossary(<<>>, <<DefList(<<DefItem(<<>>, T_X, <<P(T_X)>>)>>)>>)>>)>>),
               Glossary(<<>>, <<DefList(<<DefItem(<<>>, T_X,
                   <<Glossary(<<>>, <<DefList(<<DefItem(<<>>, T_X, <<P(T_X)>>)>>)>>)>>)>>)>>)}}

\* Reference targets: '_p.h' (an anonymous reference in disguise), 'p.h', 'a/.h'.
U_hidden == <<95, 112, 46, 104>>
U_page == <<112, 46, 104>>
U_dotfile == <<97, 47, 46, 104>>
T_function == <<102, 117, 110, 99, 116, 105, 111, 110>>

Para(children) == Node("paragraph", <<>>, NoAttrs, children)
Ref(attrs) == Node("reference", <<>>, attrs, <<Text(T_X)>>)
Desc(ids, attrs, children) == Node("desc", ids, attrs, children)
DescSig(ids, children) == Node("desc_signature", ids, NoAttrs, children)
DescName(children) == Node("desc_name", <<>>, NoAttrs, children)

\* Nodes of a kind the translator has no handler for, and include nodes.
UnknownDocs ==
    {InSection(<<Node(k, <<>>, NoAttrs, c), P(T_Hello)>>) :
        k \in {"footnote", "include"}, c \in {<<>>, <<P(T_X)>>}}

RefAttrs ==
    {NoAttrs,
     ("refid" :> "t1"),
     ("refuri" :> U_page),
     ("refuri" :> U_page) @@ ("internal" :> TRUE),
     ("refuri" :> U_dotfile) @@ ("internal" :> TRUE),
     ("refuri" :> U_page) @@ ("internal" :> FALSE),
     ("refuri" :> U_hidden) @@ ("anonymous" :> 1),
     ("refuri" :> <<>>) @@ ("anonymous" :> 1),
     ("refid" :> "t1") @@ ("refuri" :> U_hidden) @@ ("anonymous" :> 1)}
RefDocs ==
    {InSection(<<Para(<<Text(T_Hello), Ref(a)>>)>>) : a \in RefAttrs}
    \cup {InSection(<<Target("t1"), Para(<<Ref(a), Text(T_Hello)>>)>>) :
            a \in {NoAttrs, ("refuri" :> U_page)}}

\* Diagnostic nodes as the parser leaves them: a problematic inline in a
\* paragraph, a system_message block holding a paragraph.
DiagnosticDocs ==
    {InSection(<<Para(<<Text(T_Hello), Node("problematic", <<"id1">>, NoAttrs, <<Text(t)>>)>>)>>) :
        t \in {T_X, T_dirty}}
    \cup {InSection(<<Node("system_message", <<>>, NoAttrs, <<P(T_X)>>), P(T_Hello)>>),
          InSection(<<Target("t1"), Node("system_message", <<>>, NoAttrs, <<P(T_X)>>)>>),
          InSection(<<Node("system_message", <<>>, NoAttrs, <<>>), P(T_Hello)>>)}

\* Descriptions: every combination of identifiers on the node and on its
\* first child, with and without a pending identifier and a description type.
DescDocs ==
    {InSection(pre \o <<Desc(ids, a, <<DescSig(cids, <<DescName(<<Text(T_X)>>)>>), P(T_Hello)>>)>>) :
        pre \in {<<>>, <<Target("t1")>>},
        ids \in {<<>>, <<"d1">>},
        cids \in {<<>>, <<"c1">>},
        a \in {NoAttrs, ("desctype" :> T_function)}}
    \cup {InSection(<<Desc(<<>>, ("desctype" :> T_function), c)>>) :
            c \in {<<>>, <<Text(T_X)>>, <<DescSig(<<"c1">>, <<DescName(<<>>)>>)>>,
                   <<DescSig(<<"c1">>, <<DescName(<<Text(T_dirty)>>)>>)>>}}
    \cup {InSection(<<Desc(<<"d1">>, ("desctype" :> T_function),
                           <<DescSig(<<>>, <<DescName(c)>>),
                             DescSig(<<>>, <<DescName(<<Text(T_Hello)>>)>>)>>)>>) :
            c \in {<<Text(T_X)>>, <<Text(T_X), Text(T_Hello)>>,
                   <<Node("desc_sig_name", <<>>, NoAttrs, <<Text(T_X)>>)>>}}

Line(t) == Node("line", <<>>, NoAttrs, <<Text(t)>>)
LineBlockDocs ==
    {InSection(<<Node("line_block", <<>>, NoAttrs, ls)>>) :
        ls \in {<<Line(T_X)>>, <<Line(T_dirty), Line(T_X)>>}}
    \cup {InSection(pre \o <<Node("line_block", <<>>, NoAttrs, ls), P(T_Hello)>>) :
            pre \in {<<>>, <<Target("t1")>>},
            ls \in {<<Line(T_X), Node("line", <<>>, NoAttrs, <<>>), Line(T_Hello)>>,
                    <<Line(T_X), Node("line", <<>>, NoAttrs, <<Text(T_X), Text(T_dirty)>>)>>,
                    <<Line(T_X),
                      Node("line_block", <<>>, NoAttrs, <<Line(T_Hello), Line(T_Ada)>>),
                      Line(T_2024)>>}}

\* Auto-summary tables as autosummary leaves them: a rubric, a column
\* specification and the table, once or twice in a description, and a table
\* that has no rubric before it.
Summary(t) ==
    <<Node("rubric", <<>>, NoAttrs, <<Text(t)>>), Skipped("tabular_col_spec"),
      Node("autosummary_table", <<>>, NoAttrs, <<P(T_Hello)>>)>>
AutoSummaryDocs ==
    {InSection(pre \o <<Desc(<<"d1">>, NoAttrs,
                             <<DescSig(<<>>, <<DescName(<<Text(T_X)>>)>>)>> \o tables)>> \o post) :
        pre \in {<<>>, <<Target("t1")>>},
        tables \in {<<>>, Summary(T_X), Summary(T_dirty), Summary(T_X) \o Summary(T_Hello)},
        post \in {<<>>, <<P(T_Hello)>>}}
    \cup {InSection(<<Desc(<<"d1">>, NoAttrs,
                           <<Node("autosummary_table", <<>>, NoAttrs, <<>>)>>)>>),
          InSection(<<Desc(<<"d1">>, NoAttrs,
                           <<Node("rubric", <<>>, NoAttrs, <<>>), P(T_X),
                             Node("autosummary_table", <<"s1">>, NoAttrs, <<>>)>>)>>),
          InSection(Summary(T_X))}

\* Cross-reference placeholders the resolver left in a paragraph.
XRef(attrs) == Node("pending_xref", <<>>, attrs, <<Text(T_X)>>)
XRefAttrs ==
    {NoAttrs,
     ("reftype" :> "ref") @@ ("reftarget" :> ""),
     ("reftype" :> "term") @@ ("reftarget" :> ""),
     ("reftype" :> "term") @@ ("reftarget" :> "term-x"),
     ("reftype" :> "ref") @@ ("reftarget" :> "other"),
     ("reftype" :> "ref") @@ ("reftarget" :> "other") @@ ("refid" :> "t1"),
     ("refid" :> "")}
XRefDocs ==
    {InSection(pre \o <<Para(<<Text(T_Hello), XRef(a)>>)>>) :
        a \in XRefAttrs, pre \in {<<>>, <<Target("t1")>>}}

\* Labels in a row, as two labels in front of one paragraph give them.
TargetDocs ==
    {InSection(<<Target("t1")>> \o mid \o <<Target("t2"), P(T_Hello)>>) :
        mid \in {<<>>, <<Skipped("comment")>>, <<Target("index-0")>>}}

\* A field list in a paragraph and in a caption, a figure in an image.
NestedDocs ==
    {InSection(<<Para(<<Text(T_Hello), FieldList(<<Field(n, <<P(T_Ada)>>)>>)>>), P(T_X)>>) :
        n \in {T_author, T_unknownfield, <<>>}}
    \cup {InSection(<<Figure(<<PlainImage,
                               Node("caption", <<>>, NoAttrs,
                                    <<Text(T_X), FieldList(<<Field(T_date, <<P(T_2024)>>)>>)>>)>>)>>),
          InSection(<<Figure(<<Node("image", <<>>, ("uri" :> "a.png"),
                                    <<Figure(<<PlainImage>>)>>)>>)>>)}

\* Literal blocks and addresses: with and without a language, with no class,
\* one class (a code block given one class) and two classes.
LiteralAttrs ==
    {NoAttrs,
     ("language" :> "python"),
     ("classes" :> <<"code", "c">>),
     ("language" :> "python") @@ ("classes" :> <<"code", "c">>),
     ("language" :> "python") @@ ("classes" :> <<"wide">>)}
LiteralDocs ==
    {InSection(pre \o <<Node(k, <<>>, a, <<Text(T_dirty)>>), P(T_Hello)>>) :
        k \in {"literal_block", "address"}, a \in LiteralAttrs,
        pre \in {<<>>, <<Target("t1")>>}}

DefaultConfig ==
    [document_type |-> "article", document_id |-> "doc1", kwargs |-> NoAttrs,
     output_xml_header |-> TRUE]
Configs ==
    {DefaultConfig,
     [document_type |-> "book", document_id |-> None,
      kwargs |-> ("use_xml_id_in_titles" :> TRUE), output_xml_header |-> FALSE],
     [document_type |-> "chapter", document_id |-> "doc1",
      kwargs |-> ("use_xml_id_in_titles" :> FALSE), output_xml_header |-> TRUE],
     [document_type |-> "book", document_id |-> "doc2",
      kwargs |-> ("use_xml_id_in_titles" :> TRUE), output_xml_header |-> TRUE]}

\* A title entered while an identifier is pending.
TitleDocs ==
    {<<Doc(<<Sec("section", <<"intro">>,
                 <<Title(T_Intro),
                   Sec(k, ids, <<Target("t2"), Node("title", tids, NoAttrs, <<Text(T_X)>>),
                                 P(T_Hello)>>)>>)>>), c>> :
        k \in SectionKinds, ids \in {<<>>, <<"sub">>}, tids \in {<<>>, <<"ttl">>},
        c \in Configs}

Inputs ==
    (SectionDocs \X Configs)
    \cup ((BlockDocs \cup FieldDocs \cup SkipDocs \cup GlossaryDocs \cup {Doc(<<>>)})
          \X {DefaultConfig})
    \cup ((UnknownDocs \cup RefDocs \cup DiagnosticDocs \cup DescDocs \cup LineBlockDocs)
          \X {DefaultConfig})
    \cup ((AutoSummaryDocs \cup XRefDocs \cup TargetDocs \cup NestedDocs \cup LiteralDocs)
          \X {DefaultConfig})
    \cup TitleDocs

\* DocBookWriter.__init__ and DocBookTranslator.__init__
InitVisitor ==
    /\ in_first_section = FALSE
    /\ in_pre_block = FALSE
    /\ in_figure = FALSE
    /\ in_glossary = FALSE
    /\ next_element_id = None
    /\ description_type = NoneT
    /\ auto_summary_node = NoNode
    /\ estack = <<>>
    /\ tb = <<>>
    /\ fields = <<>>
    /\ current_field_name = NoneT
    /\ stderr = <<>>
    /\ raised = "none"
    /\ output = Unset
    /\ writer_fields = Unset

Init ==
    /\ \E inp \in Inputs :
          /\ original = inp[1]
          /\ document = inp[1]
          /\ document_type = inp[2].document_type
          /\ document_id = inp[2].document_id
          /\ kwargs = inp[2].kwargs
          /\ output_xml_header = inp[2].output_xml_header
    /\ InitVisitor
    /\ path = <<>>
    /\ phase = "visit"
    /\ first = Unset
    /\ text_in = NoneT
    /\ text_out = NoneT

Next ==
    \/ Enter_document \/ Leave_document
    \/ Enter_Text \/ Leave_Text
    \/ Enter_paragraph \/ Leave_paragraph
    \/ Enter_section \/ Leave_section
    \/ Enter_topic \/ Leave_topic
    \/ Enter_title \/ Leave_title
    \/ Enter_target \/ Leave_target
    \/ Enter_comment \/ Enter_download_reference
    \/ Enter_desc_annotation \/ Enter_desc_addname
    \/ Enter_rubric \/ Enter_tabular_col_spec
    \/ Enter_meta \/ Enter_highlightlang
    \/ Enter_field_list \/ Leave_field_list
    \/ Enter_field \/ Leave_field
    \/ Enter_field_name
    \/ Enter_field_body \/ Leave_field_body
    \/ Enter_image \/ Leave_image
    \/ Enter_figure \/ Leave_figure
    \/ Enter_caption \/ Leave_caption
    \/ Enter_definition_list \/ Leave_definition_list
    \/ Enter_definition_list_item \/ Leave_definition_list_item
    \/ Enter_term \/ Leave_term
    \/ Enter_definition \/ Leave_definition
    \/ Enter_glossary \/ Leave_glossary
    \/ Enter_footnote
    \/ Enter_include \/ Leave_include
    \/ Enter_reference \/ Leave_reference
    \/ Enter_problematic \/ Leave_problematic
    \/ Enter_system_message \/ Leave_system_message
    \/ Enter_desc \/ Leave_desc
    \/ Enter_desc_signature \/ Leave_desc_signature
    \/ Enter_desc_name \/ Leave_desc_name
    \/ Enter_line_block \/ Leave_line_block
    \/ Enter_line \/ Leave_line
    \/ Enter_autosummary_table \/ Leave_autosummary_table
    \/ Enter_pending_xref \/ Leave_pending_xref
    \/ Enter_literal_block \/ Leave_literal_block
    \/ Enter_address \/ Leave_address
    \/ AsText

Spec == Init /\ [][Next]_vars

\* ------------------------------------------- two translations of one tree
\* What a translation hands back: the element tree and the metadata dict.
Tree(t) ==
    [i \in 1..Len(t) |->
        [type |-> t[i].type, tag |-> t[i].tag, attrs |-> t[i].attrs, text |-> t[i].text,
         parent |-> t[i].parent]]

\* The caller keeps what translate() returned and translates the same
\* document object once more, with a new writer and a new translator made
\* from the same arguments.
Again ==
    /\ phase = "done"
    /\ first = Unset
    /\ first' = Set([tree |-> Tree(tb), fields |-> fields])
    /\ in_first_section' = FALSE
    /\ in_pre_block' = FALSE
    /\ in_figure' = FALSE
    /\ in_glossary' = FALSE
    /\ next_element_id' = None
    /\ description_type' = NoneT
    /\ auto_summary_node' = NoNode
    /\ estack' = <<>>
    /\ tb' = <<>>
    /\ fields' = <<>>
    /\ current_field_name' = NoneT
    /\ stderr' = <<>>
    /\ raised' = "none"
    /\ output' = Unset
    /\ writer_fields' = Unset
    /\ path' = <<>>
    /\ phase' = "visit"
    /\ UNCHANGED <<original, document, config_vars, san_vars>>

TwiceNext == Next \/ Again

TwiceSpec == Init /\ [][TwiceNext]_vars

\* ------------------------------------------- the sanitizer on its own
SanChars == {0, 9, 10, 12, 13, 31, 32, 65}
SanInputs == SeqsUpTo(SanChars, MaxLen) \cup {NoneT}

SanInit ==
    /\ original = Doc(<<>>)
    /\ document = Doc(<<>>)
    /\ document_type = DefaultConfig.document_type
    /\ document_id = DefaultConfig.document_id
    /\ kwargs = DefaultConfig.kwargs
    /\ output_xml_header = DefaultConfig.output_xml_header
    /\ InitVisitor
    /\ path = <<>>
    /\ phase = "sanitize"
    /\ first = Unset
    /\ text_in \in SanInputs
    /\ text_out = NoneT

Sanitize ==
    /\ phase = "sanitize"
    /\ text_out' = _sanitize_xml_text(text_in)
    /\ phase' = "sanitized"
    /\ UNCHANGED <<original, document, config_vars, visitor_vars, stderr, path,
                   raised, writer_vars, first, text_in>>

SanNext == Sanitize

SanSpec == SanInit /\ [][SanNext]_vars

\* ================================================================ claims

Elems(t) == {i \in 1..Len(t) : t[i].type = "elem"}
\* The elements and the text fragments a step feeds to the TreeBuilder.
NewItems == (Len(tb) + 1)..Len(tb')
NewElems == {i \in NewItems : tb'[i].type = "elem"}
OnStack(i) == \E k \in 1..Len(estack) : estack[k] = i

\* C1: in every traversal each element opened is closed by one pop in LIFO
\* order (the open elements are exactly the stack, each the child of the one
\* below it), no pop is executed on an empty stack, and the stack is empty
\* before the first open and once the leave of the document node is done.
C1_StackBalanced ==
    /\ raised # "IndexError: pop from empty list"
    /\ \A i \in Elems(tb) : tb[i].open <=> OnStack(i)
    /\ \A k \in 1..Len(estack) :
          tb[estack[k]].parent = (IF k = 1 THEN 0 ELSE estack[k - 1])
    /\ Elems(tb) = {} => estack = <<>>
    /\ phase \in {"astext", "done"} => estack = <<>>


\* The step enters the first section-kind node of the traversal.
EntersFirstSection ==
    phase = "visit" /\ Kind(path) \in SectionKinds /\ in_first_section = FALSE

\* C2: the first section-kind node entered opens the single root element:
\* the step opens exactly one element, at the top level, tagged with the
\* root tag, whose attributes are xml:id = document_id and version = "5.0"
\* (whatever the node's identifiers and the pending identifier are); and no
\* other element is ever opened outside this root.
C2_FirstSectionIsRoot ==
    [][/\ EntersFirstSection =>
              /\ raised' = "none"
              /\ Cardinality(NewElems) = 1
              /\ \A i \in NewElems :
                    /\ tb'[i].tag = document_type
                    /\ tb'[i].parent = 0
                    /\ tb'[i].attrs = (XML_ID :> document_id) @@ ("version" :> "5.0")
       /\ ~EntersFirstSection => \A i \in NewElems : tb'[i].parent # 0]_vars

\* C3: how _push_element resolved the id of every element opened: the
\* pending identifier if one was set, else the id the caller supplied if it
\* is not None, else no id attribute.  A step that opens an element leaves
\* the pending identifier empty, and at most one element opened by a step
\* carries the identifier that was pending.
IdResolved(e) ==
    IF Truthy(e.pend_id)
    THEN HasAttr(e.attrs, XML_ID) /\ e.attrs[XML_ID] = e.pend_id
    ELSE IF e.arg_id \notin {Absent, None}
    THEN HasAttr(e.attrs, XML_ID) /\ e.attrs[XML_ID] = e.arg_id
    ELSE ~HasAttr(e.attrs, XML_ID)

C3_PendingIdentifier ==
    [][/\ \A i \in NewElems : IdResolved(tb'[i])
       /\ NewElems # {} => next_element_id' = None
       /\ Cardinality({i \in NewElems : Truthy(tb'[i].pend_id)}) <= 1
       /\ \A i \in NewElems :
             Truthy(tb'[i].pend_id) => tb'[i].pend_id = next_element_id]_vars

\* An element took the pending identifier in place of the id its caller supplied.
C3_Witness ==
    \E i \in Elems(tb) :
        /\ Truthy(tb[i].pend_id)
        /\ tb[i].arg_id \notin {Absent, None}
        /\ tb[i].arg_id # tb[i].pend_id
        /\ tb[i].attrs[XML_ID] = tb[i].pend_id
        /\ next_element_id = None

\* The characters of a text that XML 1.0 text may hold, in their order.
RECURSIVE Kept(_)
Kept(t) ==
    IF t = <<>> THEN <<>>
    ELSE IF Head(t) >= 32 \/ Head(t) = 9 \/ Head(t) = 10 \/ Head(t) = 13
    THEN <<Head(t)>> \o Kept(Tail(t))
    ELSE Kept(Tail(t))

\* C4: _sanitize_xml_text returns the characters of its input that are at
\* least 0x20 or tab, line feed or carriage return, in their order, and
\* nothing else; None gives the empty text.
C4_Sanitize ==
    phase = "sanitized" =>
        /\ text_out # NoneT
        /\ \A i \in 1..Len(text_out) :
              text_out[i] # 0 /\ (text_out[i] >= 32 \/ text_out[i] \in {9, 10, 13})
        /\ text_out = (IF text_in = NoneT THEN <<>> ELSE Kept(text_in))

\* A text that loses a NUL and a control character and keeps the rest.
C4_Witness ==
    /\ phase = "sanitized"
    /\ text_in = <<65, 0, 12>>
    /\ text_out = <<65>>


\* The items fed to the TreeBuilder t under element i, in order.
ChildItems(t, i) == SelectSeq([k \in 1..Len(t) |-> k], LAMBDA k : t[k].parent = i)
\* ... and the text fragments among them, when there is nothing else.
OnlyTexts(t, i, texts) ==
    /\ Len(ChildItems(t, i)) = Len(texts)
    /\ \A k \in 1..Len(texts) :
          /\ t[ChildItems(t, i)[k]].type = "text"
          /\ t[ChildItems(t, i)[k]].text = texts[k]

\* A field body that is one paragraph of one text, and that text.
SimpleBody(b) ==
    /\ b.kind = "field_body"
    /\ Len(b.children) = 1
    /\ b.children[1].kind = "paragraph"
    /\ Len(b.children[1].children) = 1
    /\ b.children[1].children[1].kind = "Text"
BodyText(b) == b.children[1].children[1].text
\* A field list whose entries are each a field name followed by such a body.
SimpleList(l) ==
    /\ l.kind = "field_list"
    /\ \A i \in 1..Len(l.children) :
          /\ l.children[i].kind = "field"
          /\ Len(l.children[i].children) = 2
          /\ l.children[i].children[1].kind = "field_name"
          /\ SimpleBody(l.children[i].children[2])

\* The walk is about to leave the body of an entry named n of such a list.
LeavesEntry(n) ==
    /\ phase = "depart"
    /\ Len(path) >= 2
    /\ SimpleList(NodeAt(original, ParentPath(ParentPath(path))))
    /\ path[Len(path)] = 2
    /\ node_astext(NodeAt(original, ParentPath(path)).children[1]) = n

\* The entry's value is recorded under name n and its text, as shown, is the
\* only content of the open element w, itself tagged tag.
Captured(n, w, tag, shown) ==
    /\ \E i \in 1..Len(fields) : fields[i].key = n
    /\ DictGet(fields, n) = BodyText(NodeAt(original, path))
    /\ w # 0
    /\ tb[w].tag = tag
    /\ tb[w].open
    /\ OnlyTexts(tb, w, <<shown>>)

InInfo(w) == tb[w].parent # 0 /\ tb[tb[w].parent].tag = "info" /\ tb[tb[w].parent].open

AuthorRendered(shown) ==
    LET pn == Top(estack) IN
    /\ Len(estack) >= 3
    /\ Captured(T_author, pn, "personname", shown)
    /\ tb[pn].parent = estack[Len(estack) - 1]
    /\ tb[tb[pn].parent].tag = "author"
    /\ InInfo(tb[pn].parent)
    /\ ChildItems(tb, tb[pn].parent) = <<pn>>
    /\ estack' = SubSeq(estack, 1, Len(estack) - 2)

DateRendered(shown) ==
    LET pd == Top(estack) IN
    /\ Len(estack) >= 2
    /\ Captured(T_date, pd, "pubdate", shown)
    /\ InInfo(pd)
    /\ estack' = SubSeq(estack, 1, Len(estack) - 1)

InUnknownEntry ==
    /\ phase \in {"visit", "depart"}
    /\ \E k \in 0..(Len(path) - 1) :
          LET f == NodeAt(original, SubSeq(path, 1, k)) IN
          /\ f.kind = "field"
          /\ f.children # <<>>
          /\ f.children[1].kind = "field_name"
          /\ node_astext(f.children[1]) \notin {T_author, T_date}

\* C6: entering and leaving the field name and the field body of an entry
\* named neither author nor date, and everything below that body, feeds
\* nothing to the output: no element and no text fragment.
C6_UnknownFieldSilent ==
    [][InUnknownEntry => tb' = tb]_vars

HasAncestor(p, kind) ==
    \E k \in 0..(Len(p) - 1) : NodeAt(document, SubSeq(p, 1, k)).kind = kind

\* C7: an image that is a direct child of a figure opens no mediaobject, and
\* its imageobject lies directly in the mediaobject on top of the stack; an
\* image with no enclosing figure opens exactly one mediaobject, around its
\* imageobject, and closes both on leave.
C7_OneMediaWrapper ==
    [][/\ (phase = "visit" /\ Kind(path) = "image") =>
            LET media == {i \in NewElems : tb'[i].tag = "mediaobject"}
                io == CHOOSE i \in NewElems : tb'[i].tag = "imageobject"
            IN /\ \E i \in NewElems : tb'[i].tag = "imageobject"
               /\ Kind(ParentPath(path)) = "figure" =>
                      /\ media = {}
                      /\ tb'[io].parent # 0
                      /\ tb'[tb'[io].parent].tag = "mediaobject"
               /\ ~HasAncestor(path, "figure") =>
                      /\ Cardinality(media) = 1
                      /\ tb'[io].parent \in media
       /\ (phase = "depart" /\ Kind(path) = "image" /\ ~HasAncestor(path, "figure")) =>
            /\ Len(estack) >= 2
            /\ tb[estack[Len(estack) - 1]].tag = "mediaobject"
            /\ estack' = SubSeq(estack, 1, Len(estack) - 2)]_vars

\* C8: entering a node of a skip-and-report kind writes one diagnostic about
\* that node and changes nothing else: the tree, the output, the element
\* stack and every register stay as they are, nothing is raised, and the
\* walk goes on after the node: to none of its children and not to its leave.
C8_SkipAndReport ==
    [][(phase = "visit" /\ Kind(path) \in SkipKinds) =>
          /\ UNCHANGED <<document, visitor_vars, writer_vars>>
          /\ raised' = "none"
          /\ Len(stderr') = Len(stderr) + 1
          /\ SubSeq(stderr', 1, Len(stderr)) = stderr
          /\ stderr'[Len(stderr')].node = path
          /\ ~(IsPrefix(path, path') /\ path' # path)
          /\ ~(path' = path /\ phase' = "depart")
          /\ phase' \in {"visit", "depart", "astext"}]_vars

\* A comment that has children was skipped while an identifier was pending,
\* and the translation came to its end.
C8_Witness ==
    /\ phase = "done"
    /\ \E i \in 1..Len(stderr) :
          /\ stderr[i].text = "ignoring comment:"
          /\ NodeAt(document, stderr[i].node).children # <<>>
          /\ NodeAt(document, ParentPath(stderr[i].node) \o <<stderr[i].node[Len(stderr[i].node)] - 1>>).kind = "target"


\* The input is one section, carrying an identifier as every parsed section
\* does, that holds the title Intro and the paragraph Hello; a document id is
\* configured.
IntroHello ==
    /\ Len(original.children) = 1
    /\ original.children[1].kind = "section"
    /\ Len(original.children[1].ids) > 0
    /\ original.children[1].children = <<Title(T_Intro), P(T_Hello)>>
    /\ document_id # None

\* The id a title gets when use_xml_id_in_titles is switched on.
TitleAttrs ==
    IF HasAttr(kwargs, "use_xml_id_in_titles") /\ kwargs["use_xml_id_in_titles"]
    THEN (XML_ID :> (document_id \o ".title"))
    ELSE NoAttrs

\* C9: translating one section titled Intro that holds one paragraph Hello,
\* with root tag R and document id D, never fails, and ends with an empty
\* element stack and an output tree that is exactly one root element R with
\* xml:id = D and version = "5.0" whose children are, in order, a title
\* element with the text Intro and a para element with the text Hello.
C9_IntroHello ==
    IntroHello =>
        /\ raised = "none"
        /\ phase = "done" =>
              /\ estack = <<>>
              /\ output # Unset /\ output[1].root = 1
              /\ Len(tb) = 5
              /\ \A i \in Elems(tb) : ~tb[i].open
              /\ tb[1].type = "elem" /\ tb[1].tag = document_type /\ tb[1].parent = 0
              /\ tb[1].attrs = (XML_ID :> document_id) @@ ("version" :> "5.0")
              /\ ChildItems(tb, 1) = <<2, 4>>
              /\ tb[2].type = "elem" /\ tb[2].tag = "title" /\ tb[2].attrs = TitleAttrs
              /\ OnlyTexts(tb, 2, <<T_Intro>>)
              /\ tb[4].type = "elem" /\ tb[4].tag = "para" /\ tb[4].attrs = NoAttrs
              /\ OnlyTexts(tb, 4, <<T_Hello>>)

\* The Intro/Hello document was translated to the end under the root tag
\* chapter and the document id doc1.
C9_Witness ==
    /\ IntroHello
    /\ phase = "done"
    /\ document_type = "chapter" /\ document_id = "doc1"
    /\ tb[1].tag = "chapter"
    /\ Len(tb) = 5

\* The leave handlers that close an element whatever the state is.
PopsAlways ==
    {"section", "topic", "title", "field_list", "caption", "figure", "image",
     "definition_list_item", "term", "definition", "glossary"}

\* C10: a stack imbalance is a failure of the translation and never output:
\* a close on an empty element stack raises and aborts the walk, a walk that
\* ends with elements still open makes the serialization fail, and the
\* writer holds an output only after a translation that raised nothing and
\* ended with an empty stack.
C10_ImbalanceFails ==
    [][/\ (phase = "depart" /\ Kind(path) \in PopsAlways /\ estack = <<>>) =>
            /\ raised' = "IndexError: pop from empty list"
            /\ phase' = "raised"
       /\ (phase = "astext" /\ estack # <<>>) =>
            /\ raised' = "AssertionError: missing end tags"
            /\ phase' = "raised"
       /\ raised' # "none" => (phase' = "raised" /\ output' = Unset /\ writer_fields' = Unset)
       /\ phase = "raised" => UNCHANGED vars
       /\ output' # Unset => (phase' = "done" /\ raised' = "none" /\ estack' = <<>>)]_vars

\* A walk ended with elements still open and the translation failed with no output.
C10_Witness ==
    /\ phase = "raised"
    /\ raised = "AssertionError: missing end tags"
    /\ estack # <<>>
    /\ output = Unset


\* The kinds of the inputs that lack an enter handler (footnote) or a leave
\* handler (include) in the translator.
Unhandled == {"footnote", "include"}

\* C11: a node whose kind has no enter handler or no leave handler is
\* transparent: entering and leaving it raises nothing and opens no
\* element, entering it logs a warning, and the walk goes on to its children.
C11_UnknownKindTransparent ==
    [][(phase \in {"visit", "depart"} /\ Kind(path) \in Unhandled) =>
          /\ raised' = "none"
          /\ phase' # "raised"
          /\ NewElems = {}
          /\ phase = "visit" =>
                /\ Len(stderr') = Len(stderr) + 1
                /\ NodeAt(document, path).children # <<>> =>
                      (path' = path \o <<1>> /\ phase' = "visit")]_vars


\* The node at p is a reference with neither a refid nor a refuri.
NoTarget(p) ==
    /\ Kind(p) = "reference"
    /\ ~HasAttr(NodeAt(document, p).attrs, "refid")
    /\ ~HasAttr(NodeAt(document, p).attrs, "refuri")

\* C12: entering a reference that has neither refid nor refuri logs
\* 'unknown reference', opens nothing and goes on to the node's children;
\* the text of such a child is appended to the element that encloses the
\* reference; leaving the reference closes nothing, so the element stack is
\* the same after the node as before it.
C12_UnknownReference ==
    [][/\ (phase = "visit" /\ NoTarget(path)) =>
            /\ raised' = "none"
            /\ tb' = tb /\ estack' = estack
            /\ stderr' = Append(stderr, [text |-> "unknown reference", node |-> path])
            /\ NodeAt(document, path).children # <<>> =>
                  (path' = path \o <<1>> /\ phase' = "visit")
       /\ (phase = "visit" /\ Len(path) > 0 /\ Kind(path) = "Text" /\ NoTarget(ParentPath(path))) =>
            /\ raised' = "none"
            /\ estack' = estack
            /\ Len(tb') = Len(tb) + 1
            /\ tb'[Len(tb')].type = "text"
            /\ tb'[Len(tb')].parent = Top(estack)
            /\ tb'[Len(tb')].text = Kept(NodeAt(document, path).text)
       /\ (phase = "depart" /\ NoTarget(path)) =>
            /\ raised' = "none"
            /\ tb' = tb /\ estack' = estack]_vars

\* A reference with no target was walked inside a paragraph: its text lies
\* in the para element, no link element exists, and the translation ended.
C12_Witness ==
    /\ phase = "done"
    /\ \E k \in 1..Len(stderr) :
          /\ stderr[k].text = "unknown reference"
          /\ NodeAt(original, stderr[k].node).attrs = NoAttrs
    /\ \A i \in Elems(tb) : tb[i].tag # "link"
    /\ \E i \in 1..Len(tb) :
          /\ tb[i].type = "text" /\ tb[i].text = T_X
          /\ tb[i].parent # 0 /\ tb[tb[i].parent].tag = "para"


DiagnosticKinds == {"problematic", "system_message"}

\* The walk is at a problematic or system_message node or below one.
InDiagnostic ==
    /\ phase \in {"visit", "depart"}
    /\ \E k \in 0..Len(path) : NodeAt(document, SubSeq(path, 1, k)).kind \in DiagnosticKinds

\* C13: a problematic or system_message node is logged on enter, never
\* raises and never emits output: from entering to leaving such a node no
\* element is opened and no text fragment is appended to the output tree,
\* its descendants included.
C13_DiagnosticsSilent ==
    [][/\ (phase = "visit" /\ Kind(path) \in DiagnosticKinds) =>
            Len(stderr') = Len(stderr) + 1
       /\ InDiagnostic => (raised' = "none" /\ tb' = tb)]_vars


\* C14 as stated: the keys of the fields mapping, in the translator and as
\* the writer returns it, are among author and date.
C14_FieldsKeysRecognized ==
    /\ DictKeys(fields) \subseteq {T_author, T_date}
    /\ writer_fields # Unset => DictKeys(writer_fields[1]) \subseteq {T_author, T_date}

\* C14 (amended): the fields mapping changes only when a field body is
\* entered while a non-empty field name is captured, whatever that name is:
\* the step raises nothing and maps the name to the flattened text of the
\* body, leaving every other entry as it was; a translation that ends
\* returns this mapping.
C14_FieldsRecorded ==
    [][/\ (phase = "visit" /\ Kind(path) = "field_body" /\ TruthyT(current_field_name)) =>
            /\ raised' = "none"
            /\ DictKeys(fields') = DictKeys(fields) \cup {current_field_name}
            /\ DictGet(fields', current_field_name) = node_astext(NodeAt(document, path))
            /\ \A k \in DictKeys(fields) \ {current_field_name} :
                  DictGet(fields', k) = DictGet(fields, k)
       /\ ~(phase = "visit" /\ Kind(path) = "field_body" /\ TruthyT(current_field_name)) =>
            fields' = fields
       /\ writer_fields' # Unset => writer_fields' = Set(fields)]_vars

\* A field list with author = Ada and unknownfield = 2024 was translated
\* and both names are keys of the mapping returned.
C14_Witness ==
    /\ phase = "done"
    /\ writer_fields = Set(<<[key |-> T_author, value |-> T_Ada],
                             [key |-> T_unknownfield, value |-> T_2024]>>)


\* C15: a translation only reads the input tree, but for the text of a
\* description name: a step that is not the enter of a desc_name node leaves
\* the whole tree as it is, and the enter of a desc_name node leaves the
\* node's identifiers and attributes and every other node as they are.
C15_TreeReadOnly ==
    [][IF phase = "visit" /\ Kind(path) = "desc_name"
       THEN document' = SetNodeAt(document, path,
                            [NodeAt(document, path) EXCEPT
                                !.children = NodeAt(document', path).children])
       ELSE document' = document]_vars


\* The text fragments of the output tree.
Fragments(t) == {i \in 1..Len(t) : t[i].type = "text"}

\* C16: in every reachable state no text fragment of the output tree (the
\* text of Text nodes, synthesized titles, rewritten description names, alt
\* texts of images, line separators) holds a NUL or a control character
\* below 0x20 other than tab, line feed and carriage return.
C16_FragmentsSanitized ==
    \A i \in Fragments(tb) :
        \A k \in 1..Len(tb[i].text) :
            tb[i].text[k] >= 32 \/ tb[i].text[k] \in {9, 10, 13}

\* A description name with a NUL and a form feed in its text was rewritten
\* and reached the output, inside its title element, without them.
C16_Witness ==
    /\ phase = "done"
    /\ \E i \in Fragments(tb) :
          /\ tb[i].text = <<65, 66, 67>> \o <<32, 40>> \o str_title(T_function) \o <<41>>
          /\ tb[tb[i].parent].tag = "title"


\* The step enters a section-kind node after the first one.
EntersLaterSection ==
    phase = "visit" /\ Kind(path) \in SectionKinds /\ in_first_section = TRUE

\* C17: every section-kind node entered after the first one opens, without
\* failing, exactly one element named section, which carries the pending
\* identifier if one is set (and the pending identifier is cleared), else the
\* node's first identifier if it has one, else no id attribute.
C17_LaterSections ==
    [][EntersLaterSection =>
          /\ raised' = "none"
          /\ Cardinality(NewElems) = 1
          /\ \A i \in NewElems :
                /\ tb'[i].tag = "section"
                /\ tb'[i].attrs =
                      (IF Truthy(next_element_id) THEN (XML_ID :> next_element_id)
                       ELSE IF Len(NodeAt(document, path).ids) > 0
                       THEN (XML_ID :> NodeAt(document, path).ids[1])
                       ELSE NoAttrs)
          /\ next_element_id' = None]_vars


\* The current position of the walk is inside the subtree of a node of the
\* given kind: below such a node, or at one that was entered and not yet left.
InsideKind(kind) ==
    \E k \in 0..(IF phase = "depart" THEN Len(path) ELSE Len(path) - 1) :
        NodeAt(document, SubSeq(path, 1, k)).kind = kind

\* C18: at every moment of the traversal in_figure is true exactly inside
\* the subtree of some figure node and in_glossary exactly inside the
\* subtree of some glossary node; both are false once the walk is over.
C18_FlagsFollowNesting ==
    /\ phase \in {"visit", "depart"} =>
          /\ in_figure <=> InsideKind("figure")
          /\ in_glossary <=> InsideKind("glossary")
    /\ phase \in {"astext", "done"} => (~in_figure /\ ~in_glossary)


\* The id attribute visit_title derives for the title node at p.
DerivedTitleAttrs(p) ==
    IF HasAttr(kwargs, "use_xml_id_in_titles") /\ kwargs["use_xml_id_in_titles"]
    THEN IF Len(NodeAt(document, p).ids) > 0
         THEN (XML_ID :> NodeAt(document, p).ids[1])
         ELSE IF Len(NodeAt(document, ParentPath(p)).ids) > 0
         THEN (XML_ID :> (NodeAt(document, ParentPath(p)).ids[1] \o ".title"))
         ELSE NoAttrs
    ELSE NoAttrs

\* C19: the title element opened for a title node carries an id attribute
\* only when use_xml_id_in_titles is present and true, and then the node's
\* own first identifier, else the parent's first identifier followed by
\* '.title', else none; without the option it has no id attribute, also
\* when an identifier is pending as the title is entered.
C19_TitleIds ==
    [][(phase = "visit" /\ Kind(path) = "title") =>
          /\ Cardinality(NewElems) = 1
          /\ \A i \in NewElems :
                tb'[i].tag = "title" /\ tb'[i].attrs = DerivedTitleAttrs(path)]_vars


\* The step enters a description node whose first child is an element.
EntersDesc ==
    /\ phase = "visit" /\ Kind(path) = "desc"
    /\ NodeAt(document, path).children # <<>>
    /\ NodeAt(document, path).children[1].kind # "Text"

\* C20: entering a description node opens, without failing, exactly one
\* section element whose xml:id is the first available of the pending
\* identifier (then cleared), the node's first identifier and the first
\* identifier of the node's first child, and which has no id attribute when
\* there is none of the three.
C20_DescSection ==
    [][EntersDesc =>
          LET node == NodeAt(document, path) IN
          /\ raised' = "none"
          /\ Cardinality(NewElems) = 1
          /\ \A i \in NewElems :
                /\ tb'[i].tag = "section"
                /\ tb'[i].attrs =
                      (IF Truthy(next_element_id) THEN (XML_ID :> next_element_id)
                       ELSE IF Len(node.ids) > 0 THEN (XML_ID :> node.ids[1])
                       ELSE IF Len(node.children[1].ids) > 0
                       THEN (XML_ID :> node.children[1].ids[1])
                       ELSE NoAttrs)
          /\ next_element_id' = None]_vars


\* The auto-summary tables of a description: those in its subtree that are
\* not inside a description nested in it.
RECURSIVE OwnTables(_)
RECURSIVE OwnTablesOf(_)
OwnTables(n) ==
    IF n.kind = "autosummary_table" THEN 1 + OwnTablesOf(n.children)
    ELSE IF n.kind = "desc" THEN 0
    ELSE OwnTablesOf(n.children)
OwnTablesOf(children) ==
    IF children = <<>> THEN 0 ELSE OwnTables(Head(children)) + OwnTablesOf(Tail(children))

\* C21: entering an auto-summary table that follows its rubric opens one
\* section wrapper, which is still open, on top of the stack, once the table
\* is left; leaving the enclosing description closes every wrapper of its
\* tables and then its own section, whatever the number of its tables, and
\* clears the remembered auto-summary node.
C21_SummaryWrappers ==
    [][/\ (phase = "visit" /\ Kind(path) = "autosummary_table" /\ path[Len(path)] >= 3) =>
            /\ raised' = "none"
            /\ Len(estack') = Len(estack) + 1
            /\ tb'[Top(estack')].tag = "section"
       /\ (phase = "depart" /\ Kind(path) = "autosummary_table") =>
            /\ raised' = "none"
            /\ estack' = estack
            /\ auto_summary_node' = path
       /\ (phase = "depart" /\ Kind(path) = "desc") =>
            /\ raised' = "none"
            /\ auto_summary_node' = NoNode
            /\ Len(estack') = Len(estack) - 1 - OwnTablesOf(NodeAt(document, path).children)
            /\ \A k \in (Len(estack') + 1)..Len(estack) : tb[estack[k]].tag = "section"]_vars


\* The step enters a description name that has content while a description
\* type is active.
EntersTypedName ==
    /\ phase = "visit" /\ Kind(path) = "desc_name" /\ description_type # NoneT
    /\ NodeAt(document, path).children # <<>>

\* C22: entering a description name with text t while a description type k
\* is active replaces the node's text by the sanitized 't (K)', K being k in
\* title case, and opens one title element (into which the walk then renders
\* that text); leaving a description name closes the title and clears the
\* description type; a description name entered with no type active keeps
\* its text and opens one title element.
C22_NameSynthesis ==
    [][/\ EntersTypedName =>
            /\ raised' = "none"
            /\ node_astext(NodeAt(document', path)) =
                  Kept(node_astext(NodeAt(document, path)) \o <<32, 40>>
                       \o str_title(description_type) \o <<41>>)
            /\ Cardinality(NewElems) = 1
            /\ estack' = Append(estack, Len(tb) + 1)
            /\ tb'[Len(tb')].tag = "title"
            /\ path' = path \o <<1>> /\ phase' = "visit"
       /\ (phase = "visit" /\ Kind(path) = "desc_name" /\ description_type = NoneT) =>
            /\ document' = document
            /\ Cardinality(NewElems) = 1
            /\ tb'[Len(tb')].tag = "title"
       /\ (phase = "depart" /\ Kind(path) = "desc_name") =>
            /\ raised' = "none"
            /\ description_type' = NoneT
            /\ estack' = SubSeq(estack, 1, Len(estack) - 1)
            /\ tb[Top(estack)].tag = "title"]_vars


\* The node at p is a cross-reference placeholder with no usable target: not
\* a term reference with a target, no refid, an empty reftarget.
Unresolved(p) ==
    LET a == NodeAt(document, p).attrs IN
    /\ Kind(p) = "pending_xref"
    /\ ~Truthy(GetAttr(a, "refid", None))
    /\ ~Truthy(GetAttr(a, "reftarget", ""))

\* C23: entering a cross-reference placeholder with no usable target writes
\* one diagnostic, opens no element and feeds nothing to the output, and the
\* walk goes on after the node: to none of its children and not to its leave.
C23_UnresolvedXrefSkipped ==
    [][(phase = "visit" /\ Unresolved(path)) =>
          /\ raised' = "none"
          /\ tb' = tb /\ estack' = estack
          /\ Len(stderr') = Len(stderr) + 1
          /\ ~(IsPrefix(path, path') /\ path' # path)
          /\ ~(path' = path /\ phase' = "depart")]_vars


\* The step enters a field body while a non-empty field name is active.
EntersNamedBody ==
    phase = "visit" /\ Kind(path) = "field_body" /\ TruthyT(current_field_name)

\* C24: entering a field body while a non-empty field name n is active,
\* author, date or any other, leaves metadata[n] equal to the flattened text
\* of the body: a name the map already holds keeps its place and gets the
\* new value, a new name is added after the others; no step that is not such
\* an enter changes the map.
C24_MetadataWrites ==
    [][IF EntersNamedBody
       THEN LET n == current_field_name
                v == node_astext(NodeAt(document, path))
            IN IF n \in DictKeys(fields)
               THEN /\ Len(fields') = Len(fields)
                    /\ \A i \in 1..Len(fields) :
                          /\ fields'[i].key = fields[i].key
                          /\ fields'[i].value = (IF fields[i].key = n THEN v ELSE fields[i].value)
               ELSE fields' = Append(fields, [key |-> n, value |-> v])
       ELSE fields' = fields]_vars

\* Two entries named author, with the bodies Ada and 2024, were translated:
\* the map holds the later value only.
C24_Witness ==
    /\ phase = "done"
    /\ fields = <<[key |-> T_author, value |-> T_2024]>>
    /\ original.children[1].children[2] =
          FieldList(<<Field(T_author, <<P(T_Ada)>>), Field(T_author, <<P(T_2024)>>)>>)


\* The first element a step opens.
FirstNew == CHOOSE i \in NewElems : \A j \in NewElems : i <= j

\* C25: a target with a refid other than index-0 puts that refid in the
\* pending register; an identifier in the register stays there until an
\* element is opened, whatever is walked in between, another target
\* included, and the first element opened then carries it as xml:id.
C25_PendingConsumed ==
    [][/\ (/\ phase = "visit" /\ Kind(path) = "target"
           /\ HasAttr(NodeAt(document, path).attrs, "refid")
           /\ NodeAt(document, path).attrs["refid"] # "index-0") =>
              next_element_id' = NodeAt(document, path).attrs["refid"]
       /\ Truthy(next_element_id) =>
            /\ NewElems = {} => next_element_id' = next_element_id
            /\ NewElems # {} =>
                  /\ HasAttr(tb'[FirstNew].attrs, XML_ID)
                  /\ tb'[FirstNew].attrs[XML_ID] = next_element_id]_vars


\* The walk is at a field node or below one.
InsideEntry ==
    /\ phase \in {"visit", "depart"}
    /\ \E k \in 0..Len(path) : NodeAt(document, SubSeq(path, 1, k)).kind = "field"

\* C26: current_field_name is None whenever the walk is not inside an entry
\* of a field list (before the first field name, after every field body and
\* field list, also when a field name is the empty text), and a paragraph
\* entered outside every entry opens exactly one para element.
C26_FieldNameScoped ==
    [][/\ ~InsideEntry' => current_field_name' = NoneT
       /\ (phase = "visit" /\ Kind(path) = "paragraph" /\ ~InsideEntry) =>
            /\ Cardinality(NewElems) = 1
            /\ \A i \in NewElems : tb'[i].tag = "para"]_vars


DefinitionKinds == {"definition_list", "definition_list_item", "term", "definition"}

\* The element a node of a definition list stands for, inside a glossary and
\* outside any; "" where it has no element of its own.
DefinitionTag(kind, glossed) ==
    CASE kind = "definition_list" -> IF glossed THEN "" ELSE "variablelist"
      [] kind = "definition_list_item" -> IF glossed THEN "glossentry" ELSE "varlistentry"
      [] kind = "term" -> IF glossed THEN "glossterm" ELSE "term"
      [] kind = "definition" -> IF glossed THEN "glossdef" ELSE "listitem"

\* C27: inside a glossary a definition list opens nothing and its items,
\* terms and definitions open glossentry, glossterm and glossdef; outside any
\* glossary they open variablelist, varlistentry, term and listitem; on
\* leave each of these nodes closes the element it opened, and nothing when
\* it opened none.
C27_DefinitionTags ==
    [][\A kind \in DefinitionKinds :
          LET tag == DefinitionTag(kind, InsideKind("glossary")) IN
          /\ (phase = "visit" /\ Kind(path) = kind) =>
                IF tag = "" THEN tb' = tb /\ estack' = estack
                ELSE /\ Len(tb') = Len(tb) + 1
                     /\ tb'[Len(tb')].type = "elem" /\ tb'[Len(tb')].tag = tag
                     /\ estack' = Append(estack, Len(tb'))
          /\ (phase = "depart" /\ Kind(path) = kind) =>
                IF tag = "" THEN tb' = tb /\ estack' = estack
                ELSE /\ estack # <<>>
                     /\ tb[Top(estack)].tag = tag
                     /\ estack' = SubSeq(estack, 1, Len(estack) - 1)]_vars


\* The kinds whose enter handler opens an element under a condition on the
\* translator's state only.
ConditionalKinds == {"paragraph", "caption", "definition_list", "definition", "image"}

\* C28: the leave handler of a paragraph, a caption, a definition list, a
\* definition or an image raises nothing and closes exactly the elements
\* that the enter handler of the same node opened and left open.
C28_LeaveMatchesEnter ==
    [][(phase = "depart" /\ Kind(path) \in ConditionalKinds) =>
          /\ raised' = "none"
          /\ {i \in Elems(tb) : tb[i].open /\ ~tb'[i].open}
                = {i \in Elems(tb) : tb[i].open /\ tb[i].node = path}]_vars


\* C29: a second translation of the same tree, by a new translator made
\* with the same root tag, document id and options, raises nothing and ends
\* with the output tree and the metadata map of the first one.
C29_SameTwice ==
    first # Unset =>
        /\ raised = "none"
        /\ phase = "done" => (Tree(tb) = first[1].tree /\ fields = first[1].fields)


LiteralKinds == {"literal_block", "address"}

\* C30: entering a literal block or an address opens, without failing, one
\* programlisting element, whatever the node's language and classes are:
\* with a language attribute on the node the element has a language
\* attribute, the node's second class when the node has classes and else the
\* node's language; without one it has none; the leave closes that element.
C30_ProgramListing ==
    [][/\ (phase = "visit" /\ Kind(path) \in LiteralKinds) =>
            LET a == NodeAt(document, path).attrs
                classes == GetAttr(a, "classes", <<>>)
                e == tb'[Len(tb')]
            IN /\ raised' = "none"
               /\ Len(tb') = Len(tb) + 1
               /\ e.type = "elem" /\ e.tag = "programlisting"
               /\ estack' = Append(estack, Len(tb'))
               /\ HasAttr(e.attrs, "language") <=> HasAttr(a, "language")
               /\ (HasAttr(a, "language") /\ Len(classes) >= 2) =>
                     e.attrs["language"] = classes[2]
               /\ (HasAttr(a, "language") /\ Len(classes) = 0) =>
                     e.attrs["language"] = a["language"]
       /\ (phase = "depart" /\ Kind(path) \in LiteralKinds) =>
            /\ raised' = "none"
            /\ estack # <<>>
            /\ tb[Top(estack)].node = path
            /\ estack' = SubSeq(estack, 1, Len(estack) - 1)]_vars


\* The node is a line block of one or more lines that hold text only.
PlainLineBlock(n) ==
    /\ n.kind = "line_block"
    /\ n.children # <<>>
    /\ \A i \in 1..Len(n.children) :
          /\ n.children[i].kind = "line"
          /\ \A k \in 1..Len(n.children[i].children) :
                n.children[i].children[k].kind = "Text"

\* The text fragments such lines give, from the k-th on: each line's texts,
\* sanitized, and one line feed between a line and the next.
RECURSIVE LineFragments(_, _)
LineFragments(ls, k) ==
    IF k > Len(ls) THEN <<>>
    ELSE [j \in 1..Len(ls[k].children) |-> Kept(ls[k].children[j].text)]
         \o (IF k < Len(ls) THEN <<(<<10>>)>> ELSE <<>>)
         \o LineFragments(ls, k + 1)

\* C31: entering a line block opens one literallayout element; entering a
\* line opens and emits nothing; leaving a line appends one line-feed
\* fragment to the open element when the line is not the last child of its
\* parent and nothing when it is; so when a line block of n >= 1 text lines
\* is left, its element holds the lines' texts in order with n - 1 line
\* feeds, one between each line and the next, and the leave closes it.
C31_LineFeeds ==
    [][/\ (phase = "visit" /\ Kind(path) = "line_block") =>
            /\ raised' = "none"
            /\ Len(tb') = Len(tb) + 1
            /\ tb'[Len(tb')].type = "elem" /\ tb'[Len(tb')].tag = "literallayout"
            /\ estack' = Append(estack, Len(tb'))
       /\ (phase = "visit" /\ Kind(path) = "line") =>
            (raised' = "none" /\ tb' = tb /\ estack' = estack)
       /\ (phase = "depart" /\ Kind(path) = "line") =>
            /\ raised' = "none"
            /\ estack' = estack
            /\ IF path[Len(path)] < Len(NodeAt(document, ParentPath(path)).children)
               THEN /\ Len(tb') = Len(tb) + 1
                    /\ SubSeq(tb', 1, Len(tb)) = tb
                    /\ tb'[Len(tb')].type = "text"
                    /\ tb'[Len(tb')].text = <<10>>
                    /\ tb'[Len(tb')].parent = Top(estack)
               ELSE tb' = tb
       /\ (phase = "depart" /\ PlainLineBlock(NodeAt(document, path))) =>
            /\ raised' = "none"
            /\ estack # <<>>
            /\ tb[Top(estack)].tag = "literallayout"
            /\ tb[Top(estack)].node = path
            /\ OnlyTexts(tb, Top(estack), LineFragments(NodeAt(document, path).children, 1))
            /\ Cardinality({i \in Fragments(tb) :
                               /\ tb[i].parent = Top(estack)
                               /\ ParentPath(tb[i].node) = path
                               /\ tb[i].text = <<10>>})
                  = Len(NodeAt(document, path).children) - 1
            /\ estack' = SubSeq(estack, 1, Len(estack) - 1)]_vars

\* A line block of three lines, the second one empty, was translated: its
\* element holds X, a line feed, a line feed and Hello.
C31_Witness ==
    /\ phase = "done"
    /\ \E e \in Elems(tb) :
          /\ tb[e].tag = "literallayout"
          /\ OnlyTexts(tb, e, <<T_X, <<10>>, <<10>>, T_Hello>>)

====
